---- MODULE Spec2Model ----
(***************************************************************************)
(* Smart inventory management: the reconciliation routine                  *)
(* process_frame_update and its driver loop vision_processor_main          *)
(* (vision_processor.py), and the in-memory query service (app_api.py).    *)
(*                                                                         *)
(* The two programs are separate processes that share no state, so a       *)
(* behaviour of the model is a behaviour of one of them, chosen by         *)
(* `program`:                                                              *)
(*   "reconcile"  one call of process_frame_update on a snapshot and an    *)
(*                observation drawn from bounded sets, followed by a       *)
(*                second call on the returned snapshot;                    *)
(*   "loop"       vision_processor_main, started with no state file;       *)
(*   "api"        the FastAPI application serving its three GET routes.    *)
(***************************************************************************)
EXTENDS Integers, Sequences, FiniteSets, TLC

VARIABLES
    program,              \* which program this behaviour is of
    pc,                   \* position in vision_processor_main / in the call
    key_type,             \* type of the keys of current_state: "int" | "str"
    current_state,        \* vision_processor_main: current_state
    tracked_ids,          \* vision_processor_main: tracked_ids
    new_state,            \* vision_processor_main: new_state
    transaction,          \* vision_processor_main: transaction (None or one)
    again_state,          \* "reconcile": the snapshot the second call returned
    again_transaction,    \* "reconcile": the transaction the second call returned
    file_kind,            \* inventory_state.json: "missing" | "partial" | "valid"
    file_data,            \* its decoded content when file_kind = "valid"
    pre_file,             \* history: the file when the current cycle started
    recorded,             \* history: the transaction this cycle printed
    failed_at,            \* history: the step at which this cycle failed
    raised,               \* history: what was raised there
    inventory_db,         \* app_api: inventory_db
    transaction_history,  \* app_api: transaction_history
    response              \* app_api: the last response sent

againVars == <<again_state, again_transaction>>
loopVars == <<pc, key_type, current_state, tracked_ids, new_state, transaction,
              again_state, again_transaction, file_kind, file_data, pre_file, recorded, failed_at,
              raised>>
apiVars == <<inventory_db, transaction_history, response>>
vars == <<program, loopVars, apiVars>>

(***************************************************************************)
(* Bounds of the model.                                                    *)
(***************************************************************************)
MaxInStock == 1     \* stock counts of the snapshots given to "reconcile"
MaxObsLen == 2      \* length of the observations given to "reconcile"
MaxAdded == 1       \* the simulated ADD events stop this far above the
                    \* configured stock of the item
MaxHistory == 3     \* length of transaction_history

\* What time.strftime("%Y-%m-%d %H:%M:%S") may return: two readings of the
\* wall clock.
Times == {"2026-01-01 09:00:00", "2026-01-01 09:00:01"}

(***************************************************************************)
(* Configuration (vision_processor.py 15-19, app_api.py 9-15).             *)
(***************************************************************************)
ItemIds == {1, 2, 3}

INITIAL_INVENTORY_CONFIG ==
    [id \in ItemIds |->
        CASE id = 1 -> [name |-> "Laptop Box", min_stock |-> 2, current_stock |-> 5]
          [] id = 2 -> [name |-> "Accessory Kit", min_stock |-> 5, current_stock |-> 10]
          [] id = 3 -> [name |-> "Monitor Stand", min_stock |-> 1, current_stock |-> 3]]

AlertTiers == {"OK", "LOW", "CRITICAL"}

None == << >>

(***************************************************************************)
(* Helpers for Python lists and dicts.                                     *)
(***************************************************************************)
\* list.count(x)
Count(list, x) == Cardinality({k \in DOMAIN list : list[k] = x})

\* what random.choice(list) may return
Choices(list) == {list[k] : k \in DOMAIN list}

\* [x] * n
RECURSIVE Repeat(_, _)
Repeat(x, n) == IF n <= 0 THEN << >> ELSE <<x>> \o Repeat(x, n - 1)

\* list.remove(x): drops the first occurrence of x
RemoveFirst(list, x) ==
    LET k == CHOOSE j \in DOMAIN list :
                 list[j] = x /\ \A h \in 1..(j - 1) : list[h] # x
    IN SubSeq(list, 1, k - 1) \o SubSeq(list, k + 1, Len(list))

\* The keys of a dict in iteration order. The dicts of both programs are
\* built from the configuration literal, and json keeps the order, so the
\* order is that of the catalog: 1, 2, 3.
RECURSIVE KeysFrom(_, _)
KeysFrom(keys, k) ==
    IF keys = {} THEN << >>
    ELSE IF k \in keys THEN <<k>> \o KeysFrom(keys \ {k}, k + 1)
    ELSE KeysFrom(keys, k + 1)

Keys(state) == KeysFrom(DOMAIN state, 0)

(***************************************************************************)
(* load_inventory_state's default (vision_processor.py 34-37, 40-43).      *)
(***************************************************************************)
DefaultState ==
    [id \in ItemIds |->
        [name |-> INITIAL_INVENTORY_CONFIG[id].name,
         min_stock |-> INITIAL_INVENTORY_CONFIG[id].min_stock,
         current_stock |-> INITIAL_INVENTORY_CONFIG[id].current_stock,
         alert_status |-> "OK"]]

(***************************************************************************)
(* process_frame_update (vision_processor.py 89-131).                      *)
(***************************************************************************)
\* new_counts with an item absent from the observation keeping its stock
MutNewCountsAbsentKeepsStock(state, ids) ==
    [item_id \in DOMAIN state |->
        IF Count(ids, item_id) = 0 THEN state[item_id].current_stock
        ELSE Count(ids, item_id)]

\* line 97
new_counts(state, ids) == [item_id \in DOMAIN state |-> Count(ids, item_id)]

\* NewStatus with < for <=
MutNewStatusStrict(stock, min_stock) ==
    LET s1 == "OK"
        s2 == IF stock < min_stock THEN "LOW" ELSE s1
    IN IF stock = 0 THEN "CRITICAL" ELSE s2

\* lines 110-114
NewStatus(stock, min_stock) ==
    LET s1 == "OK"
        s2 == IF stock <= min_stock THEN "LOW" ELSE s1
    IN IF stock = 0 THEN "CRITICAL" ELSE s2

\* UpdatedItem storing the change instead of the new count
MutUpdatedItemByChange(item_data, old_count, new_count) ==
    [item_data EXCEPT
        !.current_stock = new_count - old_count,
        !.alert_status = NewStatus(new_count - old_count, item_data.min_stock)]

\* UpdatedItem adding the new count to the stock
MutUpdatedItemAccumulate(item_data, old_count, new_count) ==
    [item_data EXCEPT
        !.current_stock = old_count + new_count,
        !.alert_status = NewStatus(old_count + new_count, item_data.min_stock)]

\* lines 107-116: the update of one item whose count changed
UpdatedItem(item_data, old_count, new_count) ==
    [item_data EXCEPT
        !.current_stock = new_count,
        !.alert_status = NewStatus(new_count, item_data.min_stock)]

\* abs()
Abs(n) == IF n < 0 THEN 0 - n ELSE n

\* BuildTransaction without the abs()
MutBuildTransactionSigned(item_id, item_data, change, now) ==
    [item_id |-> ToString(item_id),
     item_name |-> item_data.name,
     timestamp |-> now,
     action |-> IF change > 0 THEN "ADDED" ELSE "REMOVED",
     quantity_change |-> change]

\* lines 120-127
BuildTransaction(item_id, item_data, change, now) ==
    [item_id |-> ToString(item_id),
     item_name |-> item_data.name,
     timestamp |-> now,
     action |-> IF change > 0 THEN "ADDED" ELSE "REMOVED",
     quantity_change |-> Abs(change)]

\* lines 118-119: only the first change of a frame is recorded
RecordFirst(old_transaction, item_transaction) ==
    IF old_transaction = None THEN <<item_transaction>> ELSE old_transaction

\* lines 99-129: the loop over new_state.items(), `ids` being the keys left
RECURSIVE FrameLoop(_, _, _, _, _)
FrameLoop(ids, state, trans, counts, now) ==
    IF ids = << >> THEN [new_state |-> state, transaction |-> trans]
    ELSE LET item_id == Head(ids)
             item_data == state[item_id]
             old_count == item_data.current_stock
             new_count == counts[item_id]
         IN IF new_count # old_count
            THEN LET change == new_count - old_count
                     updated == UpdatedItem(item_data, old_count, new_count)
                 IN FrameLoop(Tail(ids),
                              [state EXCEPT ![item_id] = updated],
                              RecordFirst(trans,
                                  BuildTransaction(item_id, updated, change, now)),
                              counts, now)
            ELSE FrameLoop(Tail(ids), state, trans, counts, now)

\* process_frame_update giving every identifier it has not seen an entry
MutProcessFrameProvisions(state, ids, now) ==
    LET unknown == {ids[k] : k \in DOMAIN ids} \ DOMAIN state
        provisioned ==
            [id \in DOMAIN state \cup unknown |->
                IF id \in DOMAIN state THEN state[id]
                ELSE [name |-> "Unknown", min_stock |-> 0,
                      current_stock |-> 0, alert_status |-> "OK"]]
    IN FrameLoop(Keys(provisioned), provisioned, None,
                 new_counts(provisioned, ids), now)

\* lines 93-131; `now` is what time.strftime reads
process_frame_update(state, ids, now) ==
    FrameLoop(Keys(state), state, None, new_counts(state, ids), now)

\* the caller's dict sharing its item dicts with the returned one
MutArgumentAliased(state, result_state) == result_state

\* line 93: every item is copied before the loop writes to it, so the dict
\* the caller passed in is afterwards what it was
ArgumentAfterCall(state, result_state) == state

(***************************************************************************)
(* generate_simulated_tracked_objects (vision_processor.py 55-87).         *)
(***************************************************************************)
\* lines 62-65
RECURSIVE PresentFrom(_, _)
PresentFrom(ids, state) ==
    IF ids = << >> THEN << >>
    ELSE Repeat(Head(ids), state[Head(ids)].current_stock)
             \o PresentFrom(Tail(ids), state)

present_ids(state) == PresentFrom(Keys(state), state)

\* generate_simulated_tracked_objects taking every instance of the target
\* off the list on REMOVE
MutGenerateRemovesAll(state, event, action, target_id) ==
    LET present == present_ids(state)
    IN IF ~event THEN present
       ELSE IF action = "ADD" THEN Append(present, target_id)
       ELSE IF action = "REMOVE" /\ Count(present, target_id) > 0
            THEN SelectSeq(present, LAMBDA id : id # target_id)
       ELSE present

\* lines 70-87; `event` is random.random() < 0.3, `action` and `target_id`
\* are the two random.choice results
generate_simulated_tracked_objects(state, event, action, target_id) ==
    LET present == present_ids(state)
    IN IF ~event THEN present
       ELSE IF action = "ADD" THEN Append(present, target_id)
       ELSE IF action = "REMOVE" /\ Count(present, target_id) > 0
            THEN RemoveFirst(present, target_id)
       ELSE present

(***************************************************************************)
(* The inputs given to process_frame_update in the "reconcile" program.    *)
(***************************************************************************)
Snapshots ==
    {[id \in ItemIds |->
         [name |-> INITIAL_INVENTORY_CONFIG[id].name,
          min_stock |-> INITIAL_INVENTORY_CONFIG[id].min_stock,
          current_stock |-> stock[id],
          alert_status |-> alert[id]]] :
     stock \in [ItemIds -> 0..MaxInStock], alert \in [ItemIds -> AlertTiers]}

\* identifiers the detector may report: the catalog's and one outside it
ObservedIds == ItemIds \cup {4}

Observations == UNION {[1..n -> ObservedIds] : n \in 0..MaxObsLen}

(***************************************************************************)
(* Initial states.                                                         *)
(***************************************************************************)
NoFile == [kind |-> "missing", data |-> None]

LoopIdle ==
    /\ key_type = "int"
    /\ new_state = None
    /\ transaction = None
    /\ again_state = None
    /\ again_transaction = None
    /\ file_kind = "missing"
    /\ file_data = None
    /\ pre_file = NoFile
    /\ recorded = None
    /\ failed_at = "none"
    /\ raised = "none"

\* app_api.py 33-37
InitialInventoryDb ==
    [item_id \in ItemIds |->
        [id |-> item_id,
         name |-> INITIAL_INVENTORY_CONFIG[item_id].name,
         min_stock |-> INITIAL_INVENTORY_CONFIG[item_id].min_stock,
         current_stock |-> INITIAL_INVENTORY_CONFIG[item_id].current_stock,
         alert_status |-> "OK"]]

ApiIdle ==
    /\ inventory_db = InitialInventoryDb
    /\ transaction_history = << >>
    /\ response = [endpoint |-> "none", body |-> << >>]

InitReconcile ==
    /\ program = "reconcile"
    /\ pc = "process"
    /\ current_state \in Snapshots
    /\ tracked_ids \in Observations
    /\ LoopIdle
    /\ ApiIdle

InitLoop ==
    /\ program = "loop"
    /\ pc = "load"
    /\ current_state = None
    /\ tracked_ids = << >>
    /\ LoopIdle
    /\ ApiIdle

InitApi ==
    /\ program = "api"
    /\ pc = "serving"
    /\ current_state = None
    /\ tracked_ids = << >>
    /\ LoopIdle
    /\ ApiIdle

Init == InitReconcile \/ InitLoop \/ InitApi

(***************************************************************************)
(* "reconcile": process_frame_update(S, O), then once more on its result.  *)
(***************************************************************************)
\* vision_processor_main line 152, and the call of the "reconcile" program
Process ==
    /\ pc = "process"
    /\ \E now \in Times :
          LET result == process_frame_update(current_state, tracked_ids, now)
          IN /\ new_state' = result.new_state
             /\ transaction' = result.transaction
             /\ current_state' =
                    ArgumentAfterCall(current_state, result.new_state)
    /\ pc' = IF program = "loop" THEN "save" ELSE "returned"
    /\ UNCHANGED <<program, againVars, key_type, tracked_ids, file_kind,
                   file_data, pre_file, recorded, failed_at, raised, apiVars>>

\* process_frame_update(current_state, O) called once more with the
\* arguments of the first call
ProcessSame ==
    /\ program = "reconcile"
    /\ pc = "returned"
    /\ \E now \in Times :
          LET result == process_frame_update(current_state, tracked_ids, now)
          IN /\ again_state' = result.new_state
             /\ again_transaction' = result.transaction
    /\ pc' = "returned_same"
    /\ UNCHANGED <<program, key_type, current_state, tracked_ids, new_state,
                   transaction, file_kind, file_data, pre_file, recorded,
                   failed_at, raised, apiVars>>

\* process_frame_update(new_state, O): the second call with the same O
ProcessAgain ==
    /\ program = "reconcile"
    /\ pc = "returned"
    /\ \E now \in Times :
          LET result == process_frame_update(new_state, tracked_ids, now)
          IN /\ again_state' = result.new_state
             /\ again_transaction' = result.transaction
    /\ pc' = "returned_again"
    /\ UNCHANGED <<program, key_type, current_state, tracked_ids, new_state,
                   transaction, file_kind, file_data, pre_file, recorded,
                   failed_at, raised, apiVars>>

(***************************************************************************)
(* "loop": vision_processor_main (vision_processor.py 135-169).            *)
(***************************************************************************)
\* json.dump then json.load: the int keys of a dict come back as strings
JsonKeys(kt) == "str"

\* load_inventory_state, lines 27-43, called at line 145
Load ==
    /\ program = "loop"
    /\ pc = "load"
    /\ IF file_kind = "valid"
       THEN /\ current_state' = file_data
            /\ key_type' = JsonKeys(key_type)
       ELSE /\ current_state' = DefaultState
            /\ key_type' = "int"
    /\ pre_file' = [kind |-> file_kind, data |-> file_data]
    /\ recorded' = None
    /\ failed_at' = "none"
    /\ raised' = "none"
    /\ pc' = "generate"
    /\ UNCHANGED <<program, againVars, tracked_ids, new_state, transaction, file_kind,
                   file_data, apiVars>>

\* The stock above which the model stops the simulated ADD events.
StockCap(item_id) == INITIAL_INVENTORY_CONFIG[item_id].current_stock + MaxAdded

\* line 149
Generate ==
    /\ program = "loop"
    /\ pc = "generate"
    /\ \E event \in BOOLEAN, action \in {"ADD", "REMOVE"},
          target_id \in DOMAIN current_state :
          /\ (event /\ action = "ADD")
                 => current_state[target_id].current_stock < StockCap(target_id)
          /\ tracked_ids' = generate_simulated_tracked_objects(
                                current_state, event, action, target_id)
    /\ pc' = "process"
    /\ UNCHANGED <<program, againVars, key_type, current_state, new_state, transaction,
                   file_kind, file_data, pre_file, recorded,
                   failed_at, raised, apiVars>>

\* save_inventory_state line 47: open(INVENTORY_FILE, 'w') truncates the file
SaveOpen ==
    /\ program = "loop"
    /\ pc = "save"
    /\ file_kind' = "partial"
    /\ file_data' = None
    /\ pc' = "save_write"
    /\ UNCHANGED <<program, againVars, key_type, current_state, tracked_ids, new_state,
                   transaction, pre_file, recorded, failed_at, raised,
                   apiVars>>

\* save_inventory_state line 48: json.dump writes the whole state
SaveWrite ==
    /\ program = "loop"
    /\ pc = "save_write"
    /\ file_kind' = "valid"
    /\ file_data' = new_state
    /\ pc' = "record"
    /\ UNCHANGED <<program, againVars, key_type, current_state, tracked_ids, new_state,
                   transaction, pre_file, recorded, failed_at, raised, apiVars>>

\* lines 158-159: the transaction, if any, is printed
Record ==
    /\ program = "loop"
    /\ pc = "record"
    /\ recorded' = transaction
    /\ pc' = "sleep"
    /\ UNCHANGED <<program, againVars, key_type, current_state, tracked_ids, new_state,
                   transaction, file_kind, file_data, pre_file,
                   failed_at, raised, apiVars>>

\* The locals are dead at the top of the while loop: each is assigned before
\* it is read again.
DeadLocals ==
    /\ key_type' = "int"
    /\ current_state' = None
    /\ tracked_ids' = << >>
    /\ new_state' = None
    /\ transaction' = None

\* line 162
Sleep ==
    /\ program = "loop"
    /\ pc = "sleep"
    /\ pc' = "load"
    /\ DeadLocals
    /\ UNCHANGED <<program, againVars, file_kind, file_data, pre_file, recorded,
                   failed_at, raised, apiVars>>

\* The steps of the try block that do input or output, each of which may
\* raise: open for reading, open for writing, the write, the print.
RaisingSteps == {"load", "save", "save_write", "record"}

\* Fail ending the loop instead of waiting for the retry
MutFailEndsLoop ==
    /\ program = "loop"
    /\ pc \in RaisingSteps
    /\ pc = "record" => transaction # None
    /\ failed_at' = pc
    /\ raised' = "Exception"
    /\ pc' = "stopped"
    /\ UNCHANGED <<program, againVars, key_type, current_state, tracked_ids,
                   new_state, transaction, file_kind, file_data, pre_file,
                   recorded, apiVars>>

\* lines 167-169: an exception other than KeyboardInterrupt in the try block
Fail ==
    /\ program = "loop"
    /\ pc \in RaisingSteps
    /\ pc = "record" => transaction # None
    /\ failed_at' = pc
    /\ raised' = "Exception"
    /\ pc' = "retry_sleep"
    /\ UNCHANGED <<program, againVars, key_type, current_state, tracked_ids, new_state,
                   transaction, file_kind, file_data, pre_file,
                   recorded, apiVars>>

\* line 169: time.sleep(5), then the next iteration
RetrySleep ==
    /\ program = "loop"
    /\ pc = "retry_sleep"
    /\ pc' = "load"
    /\ DeadLocals
    /\ UNCHANGED <<program, againVars, file_kind, file_data, pre_file, recorded,
                   failed_at, raised, apiVars>>

\* lines 164-166: KeyboardInterrupt anywhere in the try block ends the loop;
\* raised in the except clause (line 169) it ends the program uncaught
Interrupt ==
    /\ program = "loop"
    /\ pc \in {"load", "generate", "process", "save", "save_write", "record",
               "sleep", "retry_sleep"}
    /\ failed_at' = pc
    /\ raised' = "KeyboardInterrupt"
    /\ pc' = "stopped"
    /\ UNCHANGED <<program, againVars, key_type, current_state, tracked_ids, new_state,
                   transaction, file_kind, file_data, pre_file,
                   recorded, apiVars>>

LoopNext ==
    \/ Load
    \/ Generate
    \/ SaveOpen
    \/ SaveWrite
    \/ Record
    \/ Sleep
    \/ Fail
    \/ RetrySleep
    \/ Interrupt

(***************************************************************************)
(* "api": app_api.py.                                                      *)
(***************************************************************************)
\* line 15: list(INVENTORY_ITEMS.keys()) * 2
SIMULATED_DETECTED_IDS == Keys(INITIAL_INVENTORY_CONFIG) \o Keys(INITIAL_INVENTORY_CONFIG)

\* ApiNewStatus with < for <=
MutApiNewStatusStrict(stock, min_stock) ==
    LET s1 == "OK"
        s2 == IF stock < min_stock THEN "LOW" ELSE s1
    IN IF stock = 0 THEN "CRITICAL" ELSE s2

\* lines 73-77
ApiNewStatus(stock, min_stock) ==
    LET s1 == "OK"
        s2 == IF stock <= min_stock THEN "LOW" ELSE s1
    IN IF stock = 0 THEN "CRITICAL" ELSE s2

\* line 64: a REMOVE of an item that has no stock is dropped
RemoveBlocked(action, stock) == action = "REMOVE" /\ stock <= 0

\* lines 82-88
ApiTransaction(item, action, change, now) ==
    [item_id |-> item.id,
     item_name |-> item.name,
     timestamp |-> now,
     action |-> action \o "ED",
     quantity_change |-> change]

\* lines 50-90; `target_id` and `action` are the two random.choice results,
\* `event` is random.random() < 0.3, `now` is what time.strftime reads
process_vision_frame(db, history, target_id, action, event, now) ==
    LET unchanged == [inventory_db |-> db, transaction_history |-> history]
    IN IF action # "NONE" /\ event
       THEN LET item == db[target_id]
                blocked == RemoveBlocked(action, item.current_stock)
                change == IF blocked THEN 0
                          ELSE IF action = "ADD" THEN 1 ELSE 0 - 1
                action2 == IF blocked THEN "NONE" ELSE action
            IN IF change # 0
               THEN LET stock == item.current_stock + change
                        updated == [item EXCEPT
                                       !.current_stock = stock,
                                       !.alert_status =
                                           ApiNewStatus(stock, item.min_stock)]
                    IN [inventory_db |-> [db EXCEPT ![target_id] = updated],
                        transaction_history |->
                            Append(history,
                                   ApiTransaction(updated, action2, change, now))]
               ELSE unchanged
       ELSE unchanged

\* list(inventory_db.values())
Values(db) == [k \in 1..Len(Keys(db)) |-> db[Keys(db)[k]]]

\* line 109: the 10 of transaction_history[-10:]
RecentCount == 10

\* list[-n:] taken from the front
MutLastNFromFront(list, n) ==
    IF Len(list) <= n THEN list ELSE SubSeq(list, 1, n)

\* list[-n:]
LastN(list, n) ==
    IF Len(list) <= n THEN list ELSE SubSeq(list, Len(list) - n + 1, Len(list))

\* GET /inventory/status, lines 99-104, with the simulated event drawn
\* from `targets` and the clock from `times`; the model stops the simulated
\* events at StockCap and at `max_history` entries
StatusRequest(targets, times, max_history) ==
    /\ program = "api"
    /\ \E target_id \in targets,
          action \in {"ADD", "REMOVE", "NONE"},
          event \in BOOLEAN,
          now \in times :
          LET result == process_vision_frame(inventory_db, transaction_history,
                                             target_id, action, event, now)
          IN /\ Len(result.transaction_history) <= max_history
             /\ result.inventory_db[target_id].current_stock <= StockCap(target_id)
             /\ inventory_db' = result.inventory_db
             /\ transaction_history' = result.transaction_history
             /\ response' = [endpoint |-> "/inventory/status",
                             body |-> Values(result.inventory_db)]
    /\ UNCHANGED <<program, loopVars>>

GetInventoryStatus ==
    StatusRequest(Choices(SIMULATED_DETECTED_IDS), Times, MaxHistory)

\* GET /inventory/transactions cutting the stored history to what it returns
MutGetTransactionHistoryTrims ==
    /\ program = "api"
    /\ response' = [endpoint |-> "/inventory/transactions",
                    body |-> LastN(transaction_history, RecentCount)]
    /\ transaction_history' = LastN(transaction_history, RecentCount)
    /\ UNCHANGED <<program, loopVars, inventory_db>>

\* GET /inventory/transactions, lines 106-109
GetTransactionHistory ==
    /\ program = "api"
    /\ response' = [endpoint |-> "/inventory/transactions",
                    body |-> LastN(transaction_history, RecentCount)]
    /\ UNCHANGED <<program, loopVars, inventory_db, transaction_history>>

\* GET /, lines 112-114
Root ==
    /\ program = "api"
    /\ response' = [endpoint |-> "/",
                    body |-> <<[message |->
                        "Smart Inventory API running. Access /docs for endpoints."]>>]
    /\ UNCHANGED <<program, loopVars, inventory_db, transaction_history>>

ApiNext ==
    \/ GetInventoryStatus
    \/ GetTransactionHistory
    \/ Root

Next ==
    \/ Process
    \/ ProcessAgain
    \/ ProcessSame
    \/ LoopNext
    \/ ApiNext

Spec == Init /\ [][Next]_vars

(***************************************************************************)
(* app_api alone, run until transaction_history is longer than what        *)
(* GET /inventory/transactions returns. To get that far the simulated      *)
(* events of this run all fall on one item and at one clock reading.       *)
(***************************************************************************)
MaxLongHistory == 11

LongRunTargets == {2}

LongRunTimes == {"2026-01-01 09:00:00"}

GetInventoryStatusLongRun ==
    StatusRequest(LongRunTargets, LongRunTimes, MaxLongHistory)

LongHistoryNext ==
    \/ GetInventoryStatusLongRun
    \/ GetTransactionHistory
    \/ Root

LongHistorySpec == InitApi /\ [][LongHistoryNext]_vars

(***************************************************************************)
(* vision_processor_main alone, with the fairness its single thread gives: *)
(* a statement that can run does run, unless it raises or the interrupt    *)
(* arrives first. Failures and interrupts are never forced.                *)
(***************************************************************************)
LoopStep ==
    \/ Load
    \/ Generate
    \/ Process
    \/ SaveOpen
    \/ SaveWrite
    \/ Record
    \/ Sleep
    \/ RetrySleep

LoopProgramNext ==
    \/ Process
    \/ LoopNext

FairLoopSpec == InitLoop /\ [][LoopProgramNext]_vars /\ WF_vars(LoopStep)

(***************************************************************************)
(* Vocabulary of the properties.                                           *)
(***************************************************************************)
\* The alert evaluator of the specification: CRITICAL if stock == 0, else
\* LOW if stock <= min_stock, else OK.
evaluate(stock, min_stock) ==
    IF stock = 0 THEN "CRITICAL"
    ELSE IF stock <= min_stock THEN "LOW"
    ELSE "OK"

\* process_frame_update(current_state, tracked_ids) has just returned
\* (new_state, transaction).
Returned == pc \in {"returned", "returned_again", "save"}

\* multiplicity(i, O) - S[i].current_stock
Delta(id) == Count(tracked_ids, id) - current_state[id].current_stock

\* The catalog items whose multiplicity in the observation differs from
\* their stock, in catalog order.
ChangedItems == SelectSeq(Keys(current_state), LAMBDA id : Delta(id) # 0)

\* The observation holds no identifier of the catalog (it may be empty).
NoCatalogId == \A k \in DOMAIN tracked_ids : tracked_ids[k] \notin DOMAIN current_state

TheFile == [kind |-> file_kind, data |-> file_data]

(***************************************************************************)
(* C1  One call of process_frame_update returns exactly one transaction    *)
(* for each catalog item whose multiplicity in the observation differs     *)
(* from its stock, in catalog order (two changed items, two transactions). *)
(* The code keeps only the first.                                          *)
(***************************************************************************)
C1_OneTransactionPerChangedItem ==
    Returned =>
        /\ Len(transaction) = Len(ChangedItems)
        /\ \A k \in DOMAIN transaction :
               transaction[k].item_id = ToString(ChangedItems[k])

(***************************************************************************)
(* C2  No read of the query service (GET /inventory/status,                *)
(* GET /inventory/transactions, GET /) changes inventory_db or             *)
(* transaction_history. Every step of the "api" program is such a read.    *)
(***************************************************************************)
C2_ReadsDoNotMutate ==
    [][program = "api" => UNCHANGED <<inventory_db, transaction_history>>]_vars

(***************************************************************************)
(* C3  Original: every item of the snapshot process_frame_update returns   *)
(* has alert_status = evaluate(current_stock, min_stock), whatever         *)
(* alert_status the input carried, changed or not.                         *)
(***************************************************************************)
C3_AlertAlwaysEvaluated ==
    Returned =>
        \A id \in DOMAIN new_state :
            new_state[id].alert_status =
                evaluate(new_state[id].current_stock, new_state[id].min_stock)

(***************************************************************************)
(* C3  Amended: every item whose stock changed has alert_status =          *)
(* evaluate(current_stock, min_stock); an item whose stock did not change  *)
(* keeps the alert_status the input snapshot carried.                      *)
(***************************************************************************)
C3_AlertEvaluatedOnChangeElseKept ==
    Returned =>
        \A id \in DOMAIN new_state :
            IF Delta(id) # 0
            THEN new_state[id].alert_status =
                     evaluate(new_state[id].current_stock, new_state[id].min_stock)
            ELSE new_state[id].alert_status = current_state[id].alert_status

\* A changed item lands exactly on its threshold (LOW) while an unchanged
\* item carries a status that is not the evaluated one.
C3_Witness ==
    /\ Returned
    /\ \E id \in DOMAIN new_state :
           /\ Delta(id) # 0
           /\ new_state[id].current_stock = new_state[id].min_stock
           /\ new_state[id].alert_status = "LOW"
    /\ \E id \in DOMAIN new_state :
           /\ Delta(id) = 0
           /\ new_state[id].alert_status #
                  evaluate(new_state[id].current_stock, new_state[id].min_stock)

(***************************************************************************)
(* C4  If save_inventory_state fails part-way through writing, the next    *)
(* load_inventory_state returns the state of the last save that completed  *)
(* (the file as it was when the failed cycle started), never a partial     *)
(* state and never the default configuration.                              *)
(***************************************************************************)
C4_FailedSaveKeepsCommittedState ==
    [][(/\ program = "loop"
        /\ pc = "load" /\ pc' = "generate"
        /\ failed_at \in {"save", "save_write"}
        /\ pre_file.kind = "valid")
       => current_state' = pre_file.data]_vars

(***************************************************************************)
(* C5  The store commit and the recording of the cycle's transaction are   *)
(* one unit: when the save fails no transaction is recorded, and when      *)
(* recording the transaction fails after the save completed, the file is   *)
(* rolled back to what it was before the cycle.                            *)
(***************************************************************************)
C5_CommitAndRecordAreOneUnit ==
    program = "loop" =>
        /\ failed_at \in {"save", "save_write"} => recorded = None
        /\ (failed_at = "record" /\ transaction # None /\ recorded = None) =>
               TheFile = pre_file

(***************************************************************************)
(* C6  Original: an observation that is empty or holds no identifier of    *)
(* the catalog produces an all-zero-delta cycle: no item's current_stock   *)
(* or alert_status changes and no transaction is returned.                 *)
(***************************************************************************)
C6_NoCatalogIdChangesNothing ==
    (Returned /\ NoCatalogId) =>
        /\ \A id \in DOMAIN current_state :
               /\ new_state[id].current_stock = current_state[id].current_stock
               /\ new_state[id].alert_status = current_state[id].alert_status
        /\ transaction = None

(***************************************************************************)
(* C6  Amended: such an observation is ordinary input in which every       *)
(* item's observed count is 0: every item with stock > 0 is set to stock 0 *)
(* and CRITICAL, an item with stock 0 is left as it is, and one REMOVED    *)
(* transaction is returned, for the first item with stock > 0 and of its   *)
(* whole stock; no transaction is returned only when every stock is 0.     *)
(***************************************************************************)
C6_NoCatalogIdZeroesTheStock ==
    (Returned /\ NoCatalogId) =>
        LET stocked == SelectSeq(Keys(current_state),
                           LAMBDA id : current_state[id].current_stock > 0)
        IN /\ \A id \in DOMAIN current_state :
                  IF current_state[id].current_stock > 0
                  THEN new_state[id] = [current_state[id] EXCEPT
                                           !.current_stock = 0,
                                           !.alert_status = "CRITICAL"]
                  ELSE new_state[id] = current_state[id]
           /\ IF stocked = << >> THEN transaction = None
              ELSE /\ Len(transaction) = 1
                   /\ transaction[1].item_id = ToString(Head(stocked))
                   /\ transaction[1].action = "REMOVED"
                   /\ transaction[1].quantity_change =
                          current_state[Head(stocked)].current_stock

\* An observation of identifiers outside the catalog only, given to a
\* snapshot with stock: the stock is zeroed and a REMOVED is returned.
C6_Witness ==
    /\ Returned
    /\ NoCatalogId
    /\ tracked_ids # << >>
    /\ \E id \in DOMAIN current_state :
           /\ current_state[id].current_stock > 0
           /\ new_state[id].current_stock = 0
    /\ transaction # None

(***************************************************************************)
(* C7  Every item whose multiplicity in O differs from its stock gets the  *)
(* observed multiplicity as its new stock, and the transaction recorded    *)
(* for it has action ADDED if delta > 0 and REMOVED if delta < 0,          *)
(* quantity_change = |delta|, and the item's id and name. A returned       *)
(* transaction is always that of an item that changed.                     *)
(***************************************************************************)
C7_ChangedItemStockAndTransaction ==
    Returned =>
        /\ \A id \in DOMAIN current_state :
               Delta(id) # 0 =>
                   /\ new_state[id].current_stock = Count(tracked_ids, id)
                   /\ \A k \in DOMAIN transaction :
                          transaction[k].item_id = ToString(id) =>
                              /\ transaction[k].action =
                                     (IF Delta(id) > 0 THEN "ADDED" ELSE "REMOVED")
                              /\ transaction[k].quantity_change =
                                     (IF Delta(id) > 0 THEN Delta(id) ELSE 0 - Delta(id))
                              /\ transaction[k].item_name = current_state[id].name
        /\ \A k \in DOMAIN transaction :
               \E id \in DOMAIN current_state :
                   Delta(id) # 0 /\ transaction[k].item_id = ToString(id)

\* An item is observed fewer times than its stock, down to none: stock 0,
\* CRITICAL, and the REMOVED transaction of the whole stock is returned.
C7_Witness ==
    /\ Returned
    /\ \E id \in DOMAIN current_state :
           /\ Delta(id) < 0
           /\ new_state[id].current_stock = 0
           /\ new_state[id].alert_status = "CRITICAL"
           /\ transaction # None
           /\ transaction[1].item_id = ToString(id)
           /\ transaction[1].action = "REMOVED"
           /\ transaction[1].quantity_change = current_state[id].current_stock

(***************************************************************************)
(* C8  Every transaction recorded by either program (appended to           *)
(* transaction_history by process_vision_frame, or returned by             *)
(* process_frame_update) has a strictly positive quantity_change, the      *)
(* absolute size of the stock change, for ADDED and for REMOVED alike.     *)
(***************************************************************************)
C8_QuantityChangeIsPositive ==
    /\ \A k \in DOMAIN transaction_history :
           transaction_history[k].quantity_change > 0
    /\ \A k \in DOMAIN transaction : transaction[k].quantity_change > 0

C10_SecondCallChangesNothing ==
    pc = "returned_again" =>
        /\ again_state = new_state
        /\ again_transaction = None

\* The first call did change the snapshot and returned a transaction.
C10_Witness ==
    /\ pc = "returned_again"
    /\ new_state # current_state
    /\ transaction # None
    /\ again_state = new_state

(***************************************************************************)
(* C11  A KeyboardInterrupt that arrives while a cycle is in flight, after *)
(* load_inventory_state has returned and before save_inventory_state has   *)
(* returned, lets the cycle finish: when the loop has stopped, the cycle's *)
(* new state has been computed and is what the file holds.                 *)
(***************************************************************************)
C11_InterruptedCycleStillSaves ==
    (/\ program = "loop"
     /\ pc = "stopped"
     /\ failed_at \in {"generate", "process", "save", "save_write"})
    => /\ new_state # None
       /\ file_kind = "valid"
       /\ file_data = new_state

CatalogOnly(state, ids) == SelectSeq(ids, LAMBDA id : id \in DOMAIN state)

C13_UnknownIdsIgnored ==
    pc \in {"returned", "save"} =>
        /\ DOMAIN new_state = DOMAIN current_state
        /\ \A id \in DOMAIN new_state :
               new_state[id].current_stock =
                   Count(CatalogOnly(current_state, tracked_ids), id)
        /\ \E now \in Times :
               process_frame_update(
                   current_state, CatalogOnly(current_state, tracked_ids), now)
               = [new_state |-> new_state, transaction |-> transaction]

\* An observation holding an unknown identifier next to a known one whose
\* stock it changes.
C13_Witness ==
    /\ program = "reconcile"
    /\ pc = "returned"
    /\ Count(tracked_ids, 4) > 0
    /\ CatalogOnly(current_state, tracked_ids) # << >>
    /\ transaction # None
    /\ DOMAIN new_state = ItemIds

(***************************************************************************)
(* C14  GET /inventory/transactions returns the last 10 entries of         *)
(* transaction_history in append order, the whole history when it holds    *)
(* fewer than 10, and leaves transaction_history unchanged.                *)
(***************************************************************************)
C14_RecentTransactionsReturned ==
    /\ [](response.endpoint = "/inventory/transactions" =>
            LET n == Len(transaction_history)
                body == response.body
            IN /\ Len(body) = (IF n < 10 THEN n ELSE 10)
               /\ \A k \in 1..Len(body) :
                      body[k] = transaction_history[n - Len(body) + k])
    /\ [][response'.endpoint = "/inventory/transactions"
             => transaction_history' = transaction_history]_vars

\* Eleven entries stored, not all alike, and the last ten returned.
C14_Witness ==
    /\ response.endpoint = "/inventory/transactions"
    /\ Len(transaction_history) = 11
    /\ Len(response.body) = 10
    /\ transaction_history[1] # transaction_history[11]

(***************************************************************************)
(* C15  transaction_history is append-only across any sequence of API      *)
(* requests: every request leaves the history it found as a prefix of the  *)
(* history it leaves, so no entry is changed, reordered, cut or deleted,   *)
(* not even by the request that returns only the most recent entries.      *)
(***************************************************************************)
C15_HistoryAppendOnly ==
    [][/\ Len(transaction_history') >= Len(transaction_history)
       /\ SubSeq(transaction_history', 1, Len(transaction_history))
              = transaction_history]_vars

\* The recent entries were returned while more than those were stored,
\* after removals and additions both.
C15_Witness ==
    /\ response.endpoint = "/inventory/transactions"
    /\ Len(response.body) < Len(transaction_history)
    /\ \E k \in DOMAIN transaction_history :
           transaction_history[k].quantity_change > 0
    /\ \E k \in DOMAIN transaction_history :
           transaction_history[k].quantity_change < 0

(***************************************************************************)
(* C16  In every reachable state of app_api and of vision_processor_main,  *)
(* both started from the configured inventory, each item's alert_status    *)
(* is the tier of its (current_stock, min_stock): in inventory_db after    *)
(* any requests, and in the state the loop loads, computes and saves in    *)
(* any cycle, those after a missing or undecodable file included.          *)
(***************************************************************************)
AlertsDerived(state) ==
    \A id \in DOMAIN state :
        state[id].alert_status =
            evaluate(state[id].current_stock, state[id].min_stock)

C16_AlertTierNeverStale ==
    /\ program = "api" => AlertsDerived(inventory_db)
    /\ program = "loop" =>
           /\ AlertsDerived(current_state)
           /\ AlertsDerived(new_state)
           /\ file_kind = "valid" => AlertsDerived(file_data)

\* The loop has loaded a state it saved earlier, with an item at CRITICAL
\* and another at LOW.
C16_Witness ==
    /\ program = "loop"
    /\ pc = "generate"
    /\ pre_file.kind = "valid"
    /\ current_state = pre_file.data
    /\ \E id \in DOMAIN current_state :
           current_state[id].alert_status = "CRITICAL"
    /\ \E id \in DOMAIN current_state :
           current_state[id].alert_status = "LOW"

(***************************************************************************)
(* C17  process_frame_update is deterministic: two calls with the same S   *)
(* and the same O return the same snapshot and the same transaction        *)
(* output, every field of the transaction record included.                 *)
(***************************************************************************)
C17_SameInputsSameOutputs ==
    pc = "returned_same" =>
        /\ again_state = new_state
        /\ again_transaction = transaction

ChangeOf(entry) ==
    IF entry.action = "ADDED" THEN 1
    ELSE IF entry.action = "REMOVED" THEN 0 - 1
    ELSE 0

RECURSIVE SumOfChanges(_, _)
SumOfChanges(history, item_id) ==
    IF history = << >> THEN 0
    ELSE (IF Head(history).item_id = item_id THEN ChangeOf(Head(history)) ELSE 0)
             + SumOfChanges(Tail(history), item_id)

OneItemOneTransaction ==
    \E id \in DOMAIN inventory_db :
        /\ \/ inventory_db'[id].current_stock = inventory_db[id].current_stock + 1
           \/ inventory_db'[id].current_stock = inventory_db[id].current_stock - 1
        /\ \A other \in DOMAIN inventory_db \ {id} :
               inventory_db'[other] = inventory_db[other]
        /\ Len(transaction_history') = Len(transaction_history) + 1
        /\ SubSeq(transaction_history', 1, Len(transaction_history))
               = transaction_history
        /\ transaction_history'[Len(transaction_history')].item_id = id

C19_StockIsInitialPlusChanges ==
    /\ [](program = "api" =>
            \A id \in DOMAIN inventory_db :
                inventory_db[id].current_stock =
                    INITIAL_INVENTORY_CONFIG[id].current_stock
                        + SumOfChanges(transaction_history, id))
    /\ [][program = "api" =>
             \/ OneItemOneTransaction
             \/ /\ inventory_db' = inventory_db
                /\ transaction_history' = transaction_history]_vars

(***************************************************************************)
(* C20  The observation generate_simulated_tracked_objects(S) returns      *)
(* differs from the stock counts of S in the multiplicity of at most one   *)
(* item, and then by exactly 1, and never takes an instance of an item     *)
(* with stock 0; so in every cycle of vision_processor_main at most one    *)
(* item's stock changes, and the one transaction process_frame_update      *)
(* returns accounts for every stock change of the cycle.                   *)
(***************************************************************************)
CycleObserved == program = "loop" /\ pc \in {"process", "save", "save_write", "record"}

CycleProcessed == program = "loop" /\ pc \in {"save", "save_write", "record"}

C20_OneChangeOneTransactionPerCycle ==
    /\ CycleObserved =>
           /\ \A k \in DOMAIN tracked_ids : tracked_ids[k] \in DOMAIN current_state
           /\ Len(ChangedItems) <= 1
           /\ \A id \in DOMAIN current_state :
                  /\ Delta(id) \in {0 - 1, 0, 1}
                  /\ current_state[id].current_stock = 0 => Delta(id) >= 0
    /\ CycleProcessed =>
           /\ Len(transaction) = Len(ChangedItems)
           /\ \A id \in DOMAIN current_state :
                  new_state[id].current_stock # current_state[id].current_stock
                      => /\ transaction # None
                         /\ transaction[1].item_id = ToString(id)
                         /\ transaction[1].quantity_change = Abs(Delta(id))
                         /\ transaction[1].action =
                                (IF Delta(id) > 0 THEN "ADDED" ELSE "REMOVED")

\* A cycle on a state read back from the file, in which one instance was
\* taken off the shelf while another item had none left.
C20_Witness ==
    /\ program = "loop"
    /\ pc = "save"
    /\ key_type = "str"
    /\ transaction # None
    /\ transaction[1].action = "REMOVED"
    /\ \E id \in DOMAIN current_state : current_state[id].current_stock = 0

====
